---- MODULE Spec2Model ----
(***************************************************************************)
(* Off-chain index adapter of the GraphQL API (off_chain.rs) and the       *)
(* storage table registry (tables.rs).                                     *)
(*                                                                         *)
(* The adapter is a thin layer over `Database`: the inherent methods of    *)
(* `Database` (get_tx_status, owned_coins_ids, record_tx_id_owner, Clone,  *)
(* ...) and the StorageInspect/StorageMutate implementations of the tables *)
(* live outside the two files modelled here; they are modelled from the    *)
(* design document of the storage layer and are prefixed `Database_` or   *)
(* `Storage`.                                                              *)
(***************************************************************************)
EXTENDS Integers, Sequences, FiniteSets, TLC

\* ---------------------------------------------------------------- bounds
MaxWrites == 2        \* worker writes in a run that hands out views
MaxIndexWrites == 3   \* worker writes in a run that iterates the owner indexes
MaxViews == 1         \* views handed out in a run
MaxInserts == 3       \* inserts into the primary store in a run

\* ---------------------------------------------------------------- domains
Owners == {"A", "B"}
BlockHeights == {5, 6}
TxIndexes == {0, 1}
TxIds == {"tx1", "tx2"}
Statuses == {"Submitted", "Success"}
UtxoIds == {1, 2, 3}
Nonces == {1, 2}
Directions == {"Forward", "Reverse"}

\* ------------------------------------------------- Option<T> and Result<T,E>
None == <<>>
Some(x) == <<x>>
Ok(x) == <<"Ok", x>>
Err(e) == <<"Err", e>>
is_ok(r) == r[1] = "Ok"

\* Result<Option<T>, E>::transpose : Ok(None) -> None, Ok(Some(x)) -> Some(Ok(x)),
\* Err(e) -> Some(Err(e))
transpose(r) ==
    IF is_ok(r)
    THEN IF r[2] = None THEN None ELSE Some(Ok(r[2][1]))
    ELSE Some(Err(r[2]))

\* Option::ok_or
ok_or(opt, e) == IF opt = None THEN Err(e) ELSE Ok(opt[1])

\* not_found!("TransactionId")
not_found(kind) == <<"NotFound", kind>>

\* StorageError::from(DatabaseError)
StorageError_from(e) == <<"StorageError", e>>

\* result.map_err(StorageError::from)
map_err(result) == IF is_ok(result) THEN result ELSE Err(StorageError_from(result[2]))

\* iter.map(|result| result.map_err(StorageError::from))
iter_map(iter) == [i \in 1..Len(iter) |-> map_err(iter[i])]

\* ---------------------------------------------------------- the byte store
\* One table: a map from key to at most one value.
StorageGet(table, k) == table[k]

\* StorageInsert that reports the value it has just written as the previous one.
StorageInsert_returns_new(table, k, v) ==
    [table |-> [table EXCEPT ![k] = Some(v)], prev |-> Some(v)]

StorageInsert(table, k, v) ==
    [table |-> [table EXCEPT ![k] = Some(v)], prev |-> table[k]]

OwnedTxKeys == Owners \X BlockHeights \X TxIndexes
OwnedCoinKeys == Owners \X UtxoIds
OwnedMessageKeys == Owners \X Nonces

EmptyDatabase ==
    [ TransactionStatuses   |-> [k \in TxIds |-> None],
      OwnedTransactionIndex |-> [k \in OwnedTxKeys |-> None],
      OwnedCoins            |-> [k \in OwnedCoinKeys |-> None],
      OwnedMessageIds       |-> [k \in OwnedMessageKeys |-> None] ]

\* --------------------------------------------- table registry (tables.rs)
\* impl Mappable for <table>: the owned key and owned value type of each table.
TableNames == {"FuelBlocks", "ContractsLatestUtxo", "Receipts", "SealedBlockConsensus",
               "Coins", "Messages", "SpentMessages", "Transactions",
               "ProcessedTransactions"}

OwnedKey(t) ==
    CASE t = "FuelBlocks"            -> "BlockId"
      [] t = "ContractsLatestUtxo"   -> "ContractId"
      [] t = "Receipts"              -> "Bytes32"
      [] t = "SealedBlockConsensus"  -> "BlockId"
      [] t = "Coins"                 -> "UtxoId"
      [] t = "Messages"              -> "Nonce"
      [] t = "SpentMessages"         -> "Nonce"
      [] t = "Transactions"          -> "TxId"
      [] t = "ProcessedTransactions" -> "TxId"

OwnedValue(t) ==
    CASE t = "FuelBlocks"            -> "CompressedBlock"
      [] t = "ContractsLatestUtxo"   -> "ContractUtxoInfo"
      [] t = "Receipts"              -> "Vec<Receipt>"
      [] t = "SealedBlockConsensus"  -> "Consensus"
      [] t = "Coins"                 -> "CompressedCoin"
      [] t = "Messages"              -> "Message"
      [] t = "SpentMessages"         -> "()"
      [] t = "Transactions"          -> "Transaction"
      [] t = "ProcessedTransactions" -> "()"

\* Two keys of every key type; the values of every value type: the one unit
\* value, an empty and a non-empty receipt list, two values of any other type.
KeysOfTable(t) == {<<OwnedKey(t), 1>>, <<OwnedKey(t), 2>>}

ValuesOfTable(t) ==
    CASE OwnedValue(t) = "()"           -> {<<"()">>}
      [] OwnedValue(t) = "Vec<Receipt>" -> {<<>>, <<"Receipt">>}
      [] OTHER                          -> {<<OwnedValue(t), 1>>, <<OwnedValue(t), 2>>}

EmptyTables == [t \in TableNames |-> [k \in KeysOfTable(t) |-> None]]

\* ------------------------------------------------ ordered, resumable iteration
\* Keys are tuples of integers, ordered lexicographically, first component first.
RECURSIVE KeyLess(_, _)
KeyLess(a, b) ==
    IF a = <<>> \/ b = <<>> THEN FALSE
    ELSE IF Head(a) # Head(b) THEN Head(a) < Head(b)
    ELSE KeyLess(Tail(a), Tail(b))

RECURSIVE SortKeys(_)
SortKeys(S) ==
    IF S = {} THEN <<>>
    ELSE LET m == CHOOSE x \in S : \A y \in S : x = y \/ KeyLess(x, y)
         IN  <<m>> \o SortKeys(S \ {m})

ReverseSeq(s) == [i \in 1..Len(s) |-> s[Len(s) + 1 - i]]

\* Walk `keys` in key order (the default direction is Forward), starting strictly
\* after `start` when one is given.
IterFrom(keys, start, direction) ==
    LET dir     == IF direction = None THEN "Forward" ELSE direction[1]
        asc     == SortKeys(keys)
        ordered == IF dir = "Forward" THEN asc ELSE ReverseSeq(asc)
        After(k) == \/ start = None
                    \/ /\ start # None
                       /\ IF dir = "Forward" THEN KeyLess(start[1], k)
                                             ELSE KeyLess(k, start[1])
    IN  SelectSeq(ordered, After)

\* ------------------------------------------------- inherent Database methods
\* The keys an owner has in each owner index, without the owner prefix.
MessageKeysOf(db, owner) ==
    {<<n>> : n \in {n \in Nonces : StorageGet(db.OwnedMessageIds, <<owner, n>>) # None}}

CoinKeysOf(db, owner) ==
    {<<u>> : u \in {u \in UtxoIds : StorageGet(db.OwnedCoins, <<owner, u>>) # None}}

TxKeysOf(db, owner) ==
    {<<k[2], k[3]>> : k \in {k \in OwnedTxKeys :
        k[1] = owner /\ StorageGet(db.OwnedTransactionIndex, k) # None}}

Database_get_tx_status(db, tx_id, fail) ==
    IF fail THEN Err(StorageError_from("DatabaseError"))
    ELSE Ok(StorageGet(db.TransactionStatuses, tx_id))

Database_owned_message_ids(db, owner, start_message_id, direction, failing) ==
    LET keys == MessageKeysOf(db, owner)
        from == IF start_message_id = None THEN None ELSE Some(<<start_message_id[1]>>)
        it   == IterFrom(keys, from, direction)
    IN  [i \in 1..Len(it) |->
            IF it[i] \in failing THEN Err("DatabaseError") ELSE Ok(it[i][1])]

Database_owned_coins_ids(db, owner, start_coin, direction, failing) ==
    LET keys == CoinKeysOf(db, owner)
        from == IF start_coin = None THEN None ELSE Some(<<start_coin[1]>>)
        it   == IterFrom(keys, from, direction)
    IN  [i \in 1..Len(it) |->
            IF it[i] \in failing THEN Err("DatabaseError") ELSE Ok(it[i][1])]

Database_owned_transactions(db, owner, start, direction, failing) ==
    LET keys == TxKeysOf(db, owner)
        from == IF start = None THEN None
                ELSE Some(<<start[1].block_height, start[1].tx_idx>>)
        it   == IterFrom(keys, from, direction)
    IN  [i \in 1..Len(it) |->
            IF it[i] \in failing THEN Err("DatabaseError")
            ELSE Ok(<<it[i], StorageGet(db.OwnedTransactionIndex,
                                        <<owner, it[i][1], it[i][2]>>)[1]>>)]

Database_record_tx_id_owner(db, owner, block_height, tx_idx, tx_id) ==
    LET r == StorageInsert(db.OwnedTransactionIndex, <<owner, block_height, tx_idx>>, tx_id)
    IN  [db |-> [db EXCEPT !.OwnedTransactionIndex = r.table], ret |-> Ok(r.prev)]

Database_update_tx_status(db, id, status) ==
    LET r == StorageInsert(db.TransactionStatuses, id, status)
    IN  [db |-> [db EXCEPT !.TransactionStatuses = r.table], ret |-> Ok(r.prev)]

Database_insert_owned_coin(db, owner, utxo_id) ==
    LET r == StorageInsert(db.OwnedCoins, <<owner, utxo_id>>, "unit")
    IN  [db |-> [db EXCEPT !.OwnedCoins = r.table], ret |-> Ok(r.prev)]

Database_insert_owned_message(db, owner, nonce) ==
    LET r == StorageInsert(db.OwnedMessageIds, <<owner, nonce>>, "unit")
    IN  [db |-> [db EXCEPT !.OwnedMessageIds = r.table], ret |-> Ok(r.prev)]

\* Clone of a Database handle: an independent copy of the storage state.
\* `ss` is the heap of storage states, `h` the handle that is cloned.
Database_clone(ss, h) == [stores |-> Append(ss, ss[h]), handle |-> Len(ss) + 1]

\* ----------------------------------------- impl OffChainDatabase for Database
\* `failing` / `fail` is the environment's input: the keys whose read fails in
\* the underlying byte store during this call.
owned_message_ids(self, owner, start_message_id, direction, failing) ==
    iter_map(Database_owned_message_ids(self, owner, start_message_id, Some(direction), failing))

\* owned_coins_ids leaving the direction to the default.
owned_coins_ids_default_direction(self, owner, start_coin, direction, failing) ==
    iter_map(Database_owned_coins_ids(self, owner, start_coin, None, failing))

owned_coins_ids(self, owner, start_coin, direction, failing) ==
    iter_map(Database_owned_coins_ids(self, owner, start_coin, Some(direction), failing))

\* tx_status reporting a failed lookup as an absent entry.
tx_status_absent_on_error(self, tx_id, fail) ==
    LET r == Database_get_tx_status(self, tx_id, fail)
    IN  IF is_ok(r) /\ r[2] # None THEN Ok(r[2][1]) ELSE Err(not_found("TransactionId"))

\* tx_status answering a default status where nothing is recorded.
tx_status_or_default(self, tx_id, fail) ==
    LET r == Database_get_tx_status(self, tx_id, fail)
    IN  IF is_ok(r) THEN (IF r[2] = None THEN Ok("Submitted") ELSE Ok(r[2][1])) ELSE r

tx_status(self, tx_id, fail) ==
    LET r == ok_or(transpose(Database_get_tx_status(self, tx_id, fail)),
                   not_found("TransactionId"))
    IN  IF is_ok(r) THEN r[2] ELSE Err(r[2])

\* The cursor with its two fields exchanged.
OwnedTransactionIndexCursor_swapped(tx_pointer) ==
    [block_height |-> tx_pointer[2], tx_idx |-> tx_pointer[1]]

\* TxPointer is <<block_height, tx_index>>.
OwnedTransactionIndexCursor(tx_pointer) ==
    [block_height |-> tx_pointer[1], tx_idx |-> tx_pointer[2]]

owned_transactions_ids(self, owner, start, direction, failing) ==
    LET cursor == IF start = None THEN None
                  ELSE Some(OwnedTransactionIndexCursor(start[1]))
    IN  iter_map(Database_owned_transactions(self, owner, cursor, Some(direction), failing))

\* --------------------------------- impl AtomicView<OffChainView> for Database
Panic(msg) == <<"Panic", msg>>

view_at(ss, self, height) ==
    Panic("not implemented: Unimplemented until of the https://github.com/FuelLabs/fuel-core/issues/451")

\* latest_view handing out the live handle itself instead of a clone.
latest_view_shared(ss, self) == [stores |-> ss, handle |-> self]

\* latest_view handing out a freshly constructed, empty Database.
latest_view_fresh(ss, self) == [stores |-> Append(ss, EmptyDatabase), handle |-> Len(ss) + 1]

latest_view(ss, self) == Database_clone(ss, self)

\* --------------------------------- impl worker::OffChainDatabase for Database
record_tx_id_owner(self, owner, block_height, tx_idx, tx_id) ==
    Database_record_tx_id_owner(self, owner, block_height, tx_idx, tx_id)

\* update_tx_status that keeps a status already recorded.
update_tx_status_keep_first(self, id, status) ==
    IF StorageGet(self.TransactionStatuses, id) = None
    THEN Database_update_tx_status(self, id, status)
    ELSE [db |-> self, ret |-> Ok(StorageGet(self.TransactionStatuses, id))]

update_tx_status(self, id, status) ==
    Database_update_tx_status(self, id, status)

\* ------------------------------------------------------------------ state
VARIABLES
    stores,   \* heap of storage states (table name -> key -> value), indexed by
              \* Database handle
    views,    \* OffChainView handles handed out by latest_view, with the
              \* storage state each one showed when it was obtained
    written,  \* log of the writes: per table and key, the value of the last write
    writes,   \* number of worker writes so far
    budget,   \* number of writes explored in this run
    last      \* the last call and what it returned

vars == <<stores, views, written, writes, budget, last>>

\* Handle of the live Database the worker writes to.
Live == 1

Handles == {Live} \cup {views[i].handle : i \in 1..Len(views)}

\* The calls of the API side.  They leave the storage untouched, so a run is
\* explored up to its first query: every query on every reachable storage
\* state is covered.
IterOps == {"owned_message_ids", "owned_coins_ids", "owned_transactions_ids"}

QueryOps == {"view_at", "tx_status", "get"} \cup IterOps

Running == last.op \notin QueryOps

\* Sets of failing keys the environment may pick for one iteration: no stored
\* entry fails, or one of them does.
FailingSets(keys) == {{}} \cup {{k} : k \in keys}

\* Cursors a caller may pass.
Starts(keys) == {None} \cup {Some(k) : k \in keys}

\* A Database whose tables are `empty`, and `n` writes to explore.
Start(empty, n) ==
    /\ stores = <<empty>>
    /\ views = <<>>
    /\ written = empty
    /\ writes = 0
    /\ budget = n
    /\ last = [op |-> "new", args |-> <<>>, ret |-> None]

Init == Start(EmptyDatabase, MaxWrites)

\* ------------------------------------------------------------ worker writes
RecordTxIdOwner ==
    /\ Running
    /\ writes < budget
    /\ \E owner \in Owners, block_height \in BlockHeights, tx_idx \in TxIndexes, tx_id \in TxIds :
         LET r == record_tx_id_owner(stores[Live], owner, block_height, tx_idx, tx_id)
         IN  /\ stores' = [stores EXCEPT ![Live] = r.db]
             /\ written' = [written EXCEPT
                               !.OwnedTransactionIndex[<<owner, block_height, tx_idx>>] = Some(tx_id)]
             /\ last' = [op |-> "record_tx_id_owner",
                         args |-> <<owner, block_height, tx_idx, tx_id>>, ret |-> r.ret]
    /\ writes' = writes + 1
    /\ UNCHANGED <<views, budget>>

UpdateTxStatus ==
    /\ Running
    /\ writes < budget
    /\ \E id \in TxIds, status \in Statuses :
         LET r == update_tx_status(stores[Live], id, status)
         IN  /\ stores' = [stores EXCEPT ![Live] = r.db]
             /\ written' = [written EXCEPT !.TransactionStatuses[id] = Some(status)]
             /\ last' = [op |-> "update_tx_status", args |-> <<id, status>>, ret |-> r.ret]
    /\ writes' = writes + 1
    /\ UNCHANGED <<views, budget>>

InsertOwnedCoin ==
    /\ Running
    /\ writes < budget
    /\ \E owner \in Owners, utxo_id \in UtxoIds :
         LET r == Database_insert_owned_coin(stores[Live], owner, utxo_id)
         IN  /\ stores' = [stores EXCEPT ![Live] = r.db]
             /\ written' = [written EXCEPT !.OwnedCoins[<<owner, utxo_id>>] = Some("unit")]
             /\ last' = [op |-> "insert_owned_coin", args |-> <<owner, utxo_id>>, ret |-> r.ret]
    /\ writes' = writes + 1
    /\ UNCHANGED <<views, budget>>

InsertOwnedMessage ==
    /\ Running
    /\ writes < budget
    /\ \E owner \in Owners, nonce \in Nonces :
         LET r == Database_insert_owned_message(stores[Live], owner, nonce)
         IN  /\ stores' = [stores EXCEPT ![Live] = r.db]
             /\ written' = [written EXCEPT !.OwnedMessageIds[<<owner, nonce>>] = Some("unit")]
             /\ last' = [op |-> "insert_owned_message", args |-> <<owner, nonce>>, ret |-> r.ret]
    /\ writes' = writes + 1
    /\ UNCHANGED <<views, budget>>

\* ------------------------------------------------------------------- views
LatestView ==
    /\ Running
    /\ Len(views) < MaxViews
    /\ LET r == latest_view(stores, Live)
       IN  /\ stores' = r.stores
           /\ views' = Append(views, [handle |-> r.handle, pinned |-> r.stores[r.handle]])
           /\ last' = [op |-> "latest_view", args |-> <<>>, ret |-> r.handle]
    /\ UNCHANGED <<written, writes, budget>>

ViewAt ==
    /\ Running
    /\ \E height \in BlockHeights :
         last' = [op |-> "view_at", args |-> <<height>>, ret |-> view_at(stores, Live, height)]
    /\ UNCHANGED <<stores, views, written, writes, budget>>

\* ------------------------------------------------------------------- reads
TxStatus ==
    /\ Running
    /\ \E h \in Handles, tx_id \in TxIds, fail \in BOOLEAN :
         last' = [op |-> "tx_status", args |-> <<h, tx_id, fail>>,
                  ret |-> tx_status(stores[h], tx_id, fail)]
    /\ UNCHANGED <<stores, views, written, writes, budget>>

OwnedMessageIds ==
    /\ Running
    /\ \E h \in Handles, owner \in Owners, start \in Starts(Nonces), direction \in Directions :
       \E failing \in FailingSets(MessageKeysOf(stores[h], owner)) :
         last' = [op |-> "owned_message_ids", args |-> <<h, owner, start, direction, failing>>,
                  ret |-> owned_message_ids(stores[h], owner, start, direction, failing)]
    /\ UNCHANGED <<stores, views, written, writes, budget>>

OwnedCoinsIds ==
    /\ Running
    /\ \E h \in Handles, owner \in Owners, start \in Starts(UtxoIds), direction \in Directions :
       \E failing \in FailingSets(CoinKeysOf(stores[h], owner)) :
         last' = [op |-> "owned_coins_ids", args |-> <<h, owner, start, direction, failing>>,
                  ret |-> owned_coins_ids(stores[h], owner, start, direction, failing)]
    /\ UNCHANGED <<stores, views, written, writes, budget>>

OwnedTransactionsIds ==
    /\ Running
    /\ \E h \in Handles, owner \in Owners, start \in Starts(BlockHeights \X TxIndexes),
          direction \in Directions :
       \E failing \in FailingSets(TxKeysOf(stores[h], owner)) :
         last' = [op |-> "owned_transactions_ids", args |-> <<h, owner, start, direction, failing>>,
                  ret |-> owned_transactions_ids(stores[h], owner, start, direction, failing)]
    /\ UNCHANGED <<stores, views, written, writes, budget>>

\* The worker, the view provider and one API caller of tx_status / view_at.
Next ==
    \/ RecordTxIdOwner
    \/ UpdateTxStatus
    \/ InsertOwnedCoin
    \/ InsertOwnedMessage
    \/ LatestView
    \/ ViewAt
    \/ TxStatus

Spec == Init /\ [][Next]_vars

\* The worker filling the owner indexes and one API caller iterating them.
InitIter == Start(EmptyDatabase, MaxIndexWrites)

NextIter ==
    \/ RecordTxIdOwner
    \/ InsertOwnedCoin
    \/ InsertOwnedMessage
    \/ OwnedMessageIds
    \/ OwnedCoinsIds
    \/ OwnedTransactionsIds

SpecIter == InitIter /\ [][NextIter]_vars

\* The worker and one API caller of any read, with failures of the byte store.
NextApi ==
    \/ RecordTxIdOwner
    \/ UpdateTxStatus
    \/ InsertOwnedCoin
    \/ InsertOwnedMessage
    \/ TxStatus
    \/ OwnedMessageIds
    \/ OwnedCoinsIds
    \/ OwnedTransactionsIds

SpecApi == Init /\ [][NextApi]_vars

\* ------------------------------------------------------- the primary store
\* A Database holding the tables of the registry, and one reader of them.
TableInsert ==
    /\ Running
    /\ writes < budget
    /\ \E t \in TableNames :
       \E k \in KeysOfTable(t), v \in ValuesOfTable(t) :
         LET r == StorageInsert(stores[Live][t], k, v)
         IN  /\ stores' = [stores EXCEPT ![Live][t] = r.table]
             /\ written' = [written EXCEPT ![t][k] = Some(v)]
             /\ last' = [op |-> "insert", args |-> <<t, k, v>>, ret |-> r.prev]
    /\ writes' = writes + 1
    /\ UNCHANGED <<views, budget>>

TableGet ==
    /\ Running
    /\ \E t \in TableNames :
       \E k \in KeysOfTable(t) :
         last' = [op |-> "get", args |-> <<t, k>>, ret |-> StorageGet(stores[Live][t], k)]
    /\ UNCHANGED <<stores, views, written, writes, budget>>

InitTables == Start(EmptyTables, MaxInserts)

NextTables ==
    \/ TableInsert
    \/ TableGet

SpecTables == InitTables /\ [][NextTables]_vars

\* ================================================================= claims
NoFailure == {}

\* Everything an API caller can read from storage state `db` when the byte
\* store does not fail.
ReadsOf(db) ==
    [ tx_status |-> [id \in TxIds |-> tx_status(db, id, FALSE)],
      owned_message_ids |->
          [a \in Owners \X Starts(Nonces) \X Directions |->
              owned_message_ids(db, a[1], a[2], a[3], NoFailure)],
      owned_coins_ids |->
          [a \in Owners \X Starts(UtxoIds) \X Directions |->
              owned_coins_ids(db, a[1], a[2], a[3], NoFailure)],
      owned_transactions_ids |->
          [a \in Owners \X Starts(BlockHeights \X TxIndexes) \X Directions |->
              owned_transactions_ids(db, a[1], a[2], a[3], NoFailure)] ]

Yielded(it) == {it[i] : i \in 1..Len(it)}

C2_ViewAtReturnsUnsupported ==
    last.op = "view_at" => last.ret = Err("Unsupported")

\* C3: latest_view succeeds in every state, and the view it returns shows every
\* write committed before the call: the last status of every transaction and
\* every recorded owner-index entry.
C3_LatestViewReflectsWrites ==
    /\ LET r == latest_view(stores, Live) IN r.handle \in DOMAIN r.stores
    /\ last.op = "latest_view" =>
        LET view == stores[last.ret]
        IN  /\ \A id \in TxIds :
                  written.TransactionStatuses[id] # None =>
                      tx_status(view, id, FALSE) = Ok(written.TransactionStatuses[id][1])
            /\ \A owner \in Owners, direction \in Directions :
                  LET messages == Yielded(owned_message_ids(view, owner, None, direction, NoFailure))
                      coins    == Yielded(owned_coins_ids(view, owner, None, direction, NoFailure))
                      txs      == Yielded(owned_transactions_ids(view, owner, None, direction, NoFailure))
                  IN  /\ \A n \in Nonces :
                            written.OwnedMessageIds[<<owner, n>>] # None => Ok(n) \in messages
                      /\ \A u \in UtxoIds :
                            written.OwnedCoins[<<owner, u>>] # None => Ok(u) \in coins
                      /\ \A k \in BlockHeights \X TxIndexes :
                            written.OwnedTransactionIndex[<<owner, k[1], k[2]>>] # None =>
                                Ok(<<k, written.OwnedTransactionIndex[<<owner, k[1], k[2]>>][1]>>) \in txs

\* latest_view has just returned a view of a database holding a status and an
\* owner-index entry.
C3_Witness ==
    /\ last.op = "latest_view"
    /\ \E id \in TxIds : written.TransactionStatuses[id] # None
    /\ \E k \in OwnedTxKeys : written.OwnedTransactionIndex[k] # None

\* What the log of update_tx_status calls says tx_status must return for `id`.
C4_Expected(id) ==
    IF written.TransactionStatuses[id] = None
    THEN Err(not_found("TransactionId"))
    ELSE Ok(written.TransactionStatuses[id][1])

\* C4: tx_status fails with NotFound for an id update_tx_status was never called
\* for, and otherwise returns the status of the last update_tx_status of the id.
C4_TxStatusLastUpdate ==
    /\ \A id \in TxIds : tx_status(stores[Live], id, FALSE) = C4_Expected(id)
    /\ (last.op = "tx_status" /\ last.args[1] = Live /\ last.args[3] = FALSE)
          => last.ret = C4_Expected(last.args[2])

\* tx_status has returned the status of the second of two updates of one id.
C4_Witness ==
    /\ last.op = "tx_status"
    /\ last.args[1] = Live
    /\ last.args[3] = FALSE
    /\ is_ok(last.ret)
    /\ writes = 2
    /\ \E id \in TxIds :
          stores[Live] = [EmptyDatabase EXCEPT !.TransactionStatuses[id] = Some(last.ret[2])]

\* C7: record_tx_id_owner and update_tx_status return the value stored before
\* at the key (None when there was none) and store the new value whatever the
\* old one was; the same call again returns the value just written and changes
\* nothing.
C7_WritesAreUpserts ==
    [][ /\ last'.op = "record_tx_id_owner" =>
            LET a   == last'.args
                key == <<a[1], a[2], a[3]>>
            IN  /\ last'.ret = Ok(stores[Live].OwnedTransactionIndex[key])
                /\ stores'[Live].OwnedTransactionIndex[key] = Some(a[4])
                /\ (last.op = "record_tx_id_owner" /\ last.args = a) =>
                       (last'.ret = Ok(Some(a[4])) /\ stores' = stores)
        /\ last'.op = "update_tx_status" =>
            LET a == last'.args
            IN  /\ last'.ret = Ok(stores[Live].TransactionStatuses[a[1]])
                /\ stores'[Live].TransactionStatuses[a[1]] = Some(a[2])
                /\ (last.op = "update_tx_status" /\ last.args = a) =>
                       (last'.ret = Ok(Some(a[2])) /\ stores' = stores)
      ]_vars

\* update_tx_status has moved a transaction back from Success to Submitted and
\* returned the old status.
C7_Witness ==
    /\ last.op = "update_tx_status"
    /\ last.args[2] = "Submitted"
    /\ last.ret = Ok(Some("Success"))
    /\ stores[Live].TransactionStatuses[last.args[1]] = Some("Submitted")

\* The iteration of the last call again, on the same handle and owner, without
\* failures of the byte store, entered at `start` in `direction`.
IterationOf(start, direction) ==
    LET a == last.args
    IN  CASE last.op = "owned_message_ids" ->
                 owned_message_ids(stores[a[1]], a[2], start, direction, NoFailure)
          [] last.op = "owned_coins_ids" ->
                 owned_coins_ids(stores[a[1]], a[2], start, direction, NoFailure)
          [] last.op = "owned_transactions_ids" ->
                 owned_transactions_ids(stores[a[1]], a[2], start, direction, NoFailure)

\* The cursor key of a yielded item: the Nonce, the UtxoId, the TxPointer.
CursorOf(item) == IF last.op = "owned_transactions_ids" THEN item[2][1] ELSE item[2]

\* C5: an iteration entered with start = Some(k), k a key the iteration from
\* the beginning yields, yields exactly what followed k there.
C5_PaginationResumes ==
    (last.op \in IterOps /\ last.args[3] # None /\ last.args[5] = NoFailure) =>
        LET full == IterationOf(None, last.args[4])
        IN  \A i \in 1..Len(full) :
                CursorOf(full[i]) = last.args[3][1] =>
                    last.ret = SubSeq(full, i + 1, Len(full))

\* owned_coins_ids(A, Some(U1), Forward) has yielded [U2, U3].
C5_Witness ==
    /\ last.op = "owned_coins_ids"
    /\ last.args = <<Live, "A", Some(1), "Forward", NoFailure>>
    /\ last.ret = <<Ok(2), Ok(3)>>

TxPointerLess(a, b) == a[1] < b[1] \/ (a[1] = b[1] /\ a[2] < b[2])

CursorLess(a, b) == IF last.op = "owned_transactions_ids" THEN TxPointerLess(a, b) ELSE a < b

\* What the worker has recorded for the owner of the last call, as items.
RecordedItems ==
    LET owner == last.args[2]
    IN  CASE last.op = "owned_message_ids" ->
                 {Ok(n) : n \in {n \in Nonces : written.OwnedMessageIds[<<owner, n>>] # None}}
          [] last.op = "owned_coins_ids" ->
                 {Ok(u) : u \in {u \in UtxoIds : written.OwnedCoins[<<owner, u>>] # None}}
          [] last.op = "owned_transactions_ids" ->
                 {Ok(<<k, written.OwnedTransactionIndex[<<owner, k[1], k[2]>>][1]>>) :
                     k \in {k \in BlockHeights \X TxIndexes :
                               written.OwnedTransactionIndex[<<owner, k[1], k[2]>>] # None}}

\* C6: a Forward iteration from the beginning yields the owner's entries in
\* strictly increasing key order (block_height before tx_index for
\* transactions), in whatever order they were written, and a Reverse iteration
\* yields the same sequence reversed.
C6_IterationFollowsKeyOrder ==
    (last.op \in IterOps /\ last.args[3] = None /\ last.args[5] = NoFailure) =>
        /\ Yielded(last.ret) = RecordedItems
        /\ last.args[4] = "Forward" =>
              \A i \in 1..(Len(last.ret) - 1) :
                  CursorLess(CursorOf(last.ret[i]), CursorOf(last.ret[i + 1]))
        /\ last.args[4] = "Reverse" =>
              last.ret = ReverseSeq(IterationOf(None, "Forward"))

\* A Reverse iteration of three transactions of an owner: (6, 0) comes before
\* (5, 1), which comes before (5, 0).
C6_Witness ==
    /\ last.op = "owned_transactions_ids"
    /\ last.args[3] = None
    /\ last.args[4] = "Reverse"
    /\ last.args[5] = NoFailure
    /\ Len(last.ret) = 3
    /\ CursorOf(last.ret[1]) = <<6, 0>>
    /\ CursorOf(last.ret[2]) = <<5, 1>>
    /\ CursorOf(last.ret[3]) = <<5, 0>>

\* C8: in every table, insert returns the value the key had (absence when it
\* had none), the key then has the inserted value, every other key of every
\* table keeps its value, and get returns the last value inserted at the key,
\* or absence for a key never inserted.
C8_TablesAreUpsertMaps ==
    [][ /\ last'.op = "insert" =>
            LET t == last'.args[1]
                k == last'.args[2]
                v == last'.args[3]
            IN  /\ last'.ret = stores[Live][t][k]
                /\ StorageGet(stores'[Live][t], k) = Some(v)
                /\ \A t2 \in TableNames : \A k2 \in KeysOfTable(t2) :
                       (t2 # t \/ k2 # k) => stores'[Live][t2][k2] = stores[Live][t2][k2]
                /\ (last.op = "insert" /\ last.args[1] = t /\ last.args[2] = k) =>
                       last'.ret = Some(last.args[3])
        /\ last'.op = "get" =>
            last'.ret = written[last'.args[1]][last'.args[2]]
      ]_vars

\* get has returned the empty receipt list stored by the second insert at a
\* key that held a non-empty list before.
C8_Witness ==
    /\ last.op = "get"
    /\ last.args[1] = "Receipts"
    /\ last.ret = Some(<<>>)
    /\ writes = 2
    /\ \A t \in TableNames : \A k \in KeysOfTable(t) :
          (t # "Receipts" \/ k # last.args[2]) => stores[Live][t][k] = None

\* C10: a failed status lookup makes tx_status return the storage error, and
\* NotFound is returned only by a lookup that succeeded and found no entry; an
\* iteration yields an error item at the position of every entry whose read
\* failed and the other items unchanged.
C10_FailuresSurface ==
    /\ last.op = "tx_status" =>
          LET h    == last.args[1]
              id   == last.args[2]
              fail == last.args[3]
          IN  /\ fail => last.ret = Err(StorageError_from("DatabaseError"))
              /\ last.ret = Err(not_found("TransactionId")) =>
                    (~fail /\ stores[h].TransactionStatuses[id] = None)
    /\ last.op \in IterOps =>
          LET clean   == IterationOf(last.args[3], last.args[4])
              failing == last.args[5]
              KeyOf(item) == IF last.op = "owned_transactions_ids"
                             THEN CursorOf(item) ELSE <<CursorOf(item)>>
          IN  /\ Len(last.ret) = Len(clean)
              /\ \A i \in 1..Len(clean) :
                    IF KeyOf(clean[i]) \in failing
                    THEN last.ret[i] = Err(StorageError_from("DatabaseError"))
                    ELSE last.ret[i] = clean[i]

\* An iteration of two coins whose first read failed: an error item, then the
\* second coin.
C10_Witness ==
    /\ last.op = "owned_coins_ids"
    /\ last.args[5] # NoFailure
    /\ Len(last.ret) = 2
    /\ last.ret[1] = Err(StorageError_from("DatabaseError"))
    /\ is_ok(last.ret[2])

====
